---- MODULE Spec2Model ----
(***************************************************************************)
(* Access-key lifecycle of tuwenv2: the access_keys / usage_logs tables    *)
(* (api/_db.ts), the generation handler (api/generate-card.ts) and the     *)
(* admin handlers that create, update and delete keys.                     *)
(*                                                                         *)
(* Every `await query(...)` is one atomic step against the store; what a   *)
(* handler computes locally between two queries is folded into the step of *)
(* the query that follows it.  Handlers of different requests interleave   *)
(* freely between their queries.                                           *)
(*                                                                         *)
(* Not modelled: usage_logs.request_text and the caller's IP, the card     *)
(* content returned by the generation.                                     *)
(***************************************************************************)
EXTENDS Integers, FiniteSets, Sequences, TLC

(* ------------------------------ bounds --------------------------------- *)
\* keys ever inserted (access_keys.id is SERIAL: 1, 2, ...)
MaxKeys == 2
\* generation requests ever admitted
MaxRequests == 2
\* the clock runs over 0..MaxNow
MaxNow == 1
\* where requests run one at a time, the clock runs over 0..MaxLate
MaxLate == 3

(* ------------------------- program constants --------------------------- *)
\* max_uses = -1 means unlimited
Unlimited == -1
\* `Number(maxUses) || 100` in the create handler
DefaultMaxUses == 100
\* `Number(expiresInDays) || 30` in the create handler
DefaultDays == 30
\* `LIMIT 50` in getKeyLogs
LogLimit == 50

(* ------------------------------ inputs --------------------------------- *)
GenProcs == {1, 2}
Creators == {1, 2}
Names == {"a", "b"}
\* req.body.maxUses of the create handler, after Number(): 0 stands for
\* every falsy value (absent, 0, NaN)
RawMaxUses == {-1, 1}
\* req.body.expiresInDays after Number(): 0 stands for every falsy value
RawDays == {1}
\* req.body (maxUses, expiresAt) of the update handler: a quota of 1 that
\* never expires, or no quota with an expiry at time 0
UpdInputs == {<<1, <<>> >>, <<-1, <<0>> >>}
KeyIds == 1..MaxKeys
\* key codes a caller can present: 0 is a code that was never issued
Codes == 0..MaxKeys
\* the Authorization header: absent or not starting with 'Bearer ' (bearer
\* FALSE), or 'Bearer <code>'
Headers == {[bearer |-> FALSE, code |-> 0]} \cup
           {[bearer |-> TRUE, code |-> c] : c \in Codes}
\* whether a query reaches the store and runs (TRUE) or throws on a
\* connection / query failure (FALSE)
StoreOk == {TRUE}
\* error.message of a failed generation: "" is an error (or thrown value)
\* that carries no message
GenErrMsgs == {"", "No response from AI"}

\* SQL NULL for expires_at; a timestamp t is <<t>>
NULL == <<>>
NoRow == [id |-> 0]

VARIABLES
  access_keys,   \* table access_keys: a set of rows
  usage_logs,    \* table usage_logs: its rows in the order of insertion
                 \* (the order of id and of created_at)
  nextKeyId,     \* sequence behind access_keys.id
  now,           \* the clock (new Date())
  gen,           \* generation requests in flight, per handler instance
  admitted,      \* generation requests admitted so far
  creator,       \* createAccessKey calls in flight
  deleter,       \* the deleteAccessKey call in flight
  out,           \* what the step just taken returned to its caller, if it
                 \* ended a request (NoOut otherwise)
  ADMIN_PASSWORD, \* process.env.ADMIN_PASSWORD of the deployment
  applied,       \* history: per key id, increments the store has applied
                 \* to the row with that id
  deleted        \* history: issued ids for which deleteAccessKey succeeded

vars == <<access_keys, usage_logs, nextKeyId, now, gen, admitted,
          creator, deleter, out, ADMIN_PASSWORD, applied, deleted>>

(* ------------------------------ _db.ts --------------------------------- *)
\* generateKey(): a random 'sk-...' token, modelled as a value that is never
\* issued twice (the n-th key inserted gets token n)
generateKey(id) == id

\* verifyAccessKey with the expiry test written <= : a key is rejected at
\* the instant it expires
verifyAccessKeyExpiredAtInstant(keys, keyCode, t) ==
  LET rows == {k \in keys : k.key_code = keyCode /\ k.is_active = TRUE}
  IN IF rows = {} THEN [err |-> "InvalidKey", key |-> [id |-> 0]]
     ELSE LET key == CHOOSE k \in rows : TRUE
          IN IF key.expires_at # <<>> /\ key.expires_at[1] <= t
               THEN [err |-> "Expired", key |-> [id |-> 0]]
             ELSE IF key.max_uses # -1 /\ key.used_count >= key.max_uses
               THEN [err |-> "QuotaExhausted", key |-> [id |-> 0]]
             ELSE [err |-> "none", key |-> key]

\* verifyAccessKey with the quota test written > : one use too many
verifyAccessKeyQuotaOffByOne(keys, keyCode, t) ==
  LET rows == {k \in keys : k.key_code = keyCode /\ k.is_active = TRUE}
  IN IF rows = {} THEN [err |-> "InvalidKey", key |-> [id |-> 0]]
     ELSE LET key == CHOOSE k \in rows : TRUE
          IN IF key.expires_at # <<>> /\ key.expires_at[1] < t
               THEN [err |-> "Expired", key |-> [id |-> 0]]
             ELSE IF key.max_uses # -1 /\ key.used_count > key.max_uses
               THEN [err |-> "QuotaExhausted", key |-> [id |-> 0]]
             ELSE [err |-> "none", key |-> key]

\* verifyAccessKey without its quota test
verifyAccessKeyNoQuotaTest(keys, keyCode, t) ==
  LET rows == {k \in keys : k.key_code = keyCode /\ k.is_active = TRUE}
  IN IF rows = {} THEN [err |-> "InvalidKey", key |-> [id |-> 0]]
     ELSE LET key == CHOOSE k \in rows : TRUE
          IN IF key.expires_at # <<>> /\ key.expires_at[1] < t
               THEN [err |-> "Expired", key |-> [id |-> 0]]
             ELSE [err |-> "none", key |-> key]

\* verifyAccessKey with the quota test ahead of the expiry test
verifyAccessKeyQuotaFirst(keys, keyCode, t) ==
  LET rows == {k \in keys : k.key_code = keyCode /\ k.is_active = TRUE}
  IN IF rows = {} THEN [err |-> "InvalidKey", key |-> [id |-> 0]]
     ELSE LET key == CHOOSE k \in rows : TRUE
          IN IF key.max_uses # -1 /\ key.used_count >= key.max_uses
               THEN [err |-> "QuotaExhausted", key |-> [id |-> 0]]
             ELSE IF key.expires_at # <<>> /\ key.expires_at[1] < t
               THEN [err |-> "Expired", key |-> [id |-> 0]]
             ELSE [err |-> "none", key |-> key]

\* SELECT * FROM access_keys WHERE key_code = $1 AND is_active = true;
\* then the three checks.  key_code is UNIQUE, so rows[0] is the only row.
verifyAccessKey(keys, keyCode, t) ==
  LET rows == {k \in keys : k.key_code = keyCode /\ k.is_active = TRUE}
  IN IF rows = {} THEN [err |-> "InvalidKey", key |-> NoRow]
     ELSE LET key == CHOOSE k \in rows : TRUE
          IN IF key.expires_at # NULL /\ key.expires_at[1] < t
               THEN [err |-> "Expired", key |-> NoRow]
             ELSE IF key.max_uses # Unlimited /\ key.used_count >= key.max_uses
               THEN [err |-> "QuotaExhausted", key |-> NoRow]
             ELSE [err |-> "none", key |-> key]

\* the UPDATE with a WHERE clause that matches no row
updateAccessKeyUsageNoMatch(keys, keyId) == keys

\* the UPDATE without its WHERE clause: every row is incremented
updateAccessKeyUsageAllRows(keys, keyId) ==
  {[k EXCEPT !.used_count = @ + 1] : k \in keys}

\* the UPDATE made conditional on the quota:
\* ... WHERE id = $1 AND (max_uses = -1 OR used_count < max_uses)
updateAccessKeyUsageWithinQuota(keys, keyId) ==
  {IF k.id = keyId /\ (k.max_uses = -1 \/ k.used_count < k.max_uses)
     THEN [k EXCEPT !.used_count = @ + 1] ELSE k : k \in keys}

\* UPDATE access_keys SET used_count = used_count + 1 WHERE id = $1
updateAccessKeyUsage(keys, keyId) ==
  {IF k.id = keyId THEN [k EXCEPT !.used_count = @ + 1] ELSE k : k \in keys}

\* usage_logs.key_id REFERENCES access_keys(id): an insert into usage_logs
\* needs the key row
FKHolds(keys, keyId) == \E k \in keys : k.id = keyId

\* used_count of the row with this id, 0 when there is none
UsedCount(keys, keyId) ==
  IF FKHolds(keys, keyId) THEN (CHOOSE k \in keys : k.id = keyId).used_count
  ELSE 0

\* a schema without the foreign key: no row of usage_logs holds a key row
ReferencedNoForeignKey(logs, keyId) == FALSE

\* usage_logs.key_id REFERENCES access_keys(id): a key row that a log row
\* references cannot be deleted
Referenced(logs, keyId) == \E i \in DOMAIN logs : logs[i].key_id = keyId

\* INSERT INTO usage_logs (key_id, request_text, success, error_msg):
\* the row logUsage inserts; errorMsg || ''
logUsage(keyId, success, errorMsg) ==
  [key_id |-> keyId, success |-> success, error_msg |-> errorMsg]

RECURSIVE Reverse(_)
Reverse(rows) ==
  IF rows = <<>> THEN <<>> ELSE Reverse(Tail(rows)) \o <<Head(rows)>>

\* SELECT id FROM access_keys WHERE name = $1
NameTaken(keys, name) == \E k \in keys : k.name = name

\* the row createAccessKey inserts (used_count, is_active, created_at:
\* column defaults); the clock counts days
NewKeyRow(id, name, maxUses, daysValid, t) ==
  [id |-> id, key_code |-> generateKey(id), name |-> name,
   max_uses |-> maxUses, used_count |-> 0,
   expires_at |-> IF daysValid # 0 THEN <<t + daysValid>> ELSE NULL,
   is_active |-> TRUE, created_at |-> t]

\* an UPDATE that also resets the counter:
\* SET max_uses = $2, expires_at = $3, used_count = 0
updateAccessKeyResetsCount(keys, id, maxUses, expiresAt) ==
  {IF k.id = id THEN [k EXCEPT !.max_uses = maxUses, !.expires_at = expiresAt,
                               !.used_count = 0]
   ELSE k : k \in keys}

\* the UPDATE without its WHERE clause: every row gets the new limits
updateAccessKeyAllRows(keys, id, maxUses, expiresAt) ==
  {[k EXCEPT !.max_uses = maxUses, !.expires_at = expiresAt] : k \in keys}

\* UPDATE access_keys SET max_uses = $2, expires_at = $3 WHERE id = $1
updateAccessKey(keys, id, maxUses, expiresAt) ==
  {IF k.id = id THEN [k EXCEPT !.max_uses = maxUses, !.expires_at = expiresAt]
   ELSE k : k \in keys}

\* getAllKeys: every row, no filter
getAllKeys(keys) == keys

\* SELECT * FROM usage_logs WHERE key_id = $1 ORDER BY created_at DESC LIMIT 50
getKeyLogs(logs, keyId) ==
  LET Mine(l) == l.key_id = keyId
      s == Reverse(SelectSeq(logs, Mine))
  IN IF Len(s) <= LogLimit THEN s ELSE SubSeq(s, 1, LogLimit)

\* the DELETE without its WHERE clause: the logs of every key go
DeleteKeyLogsAllKeys(logs, keyId) == <<>>

\* DELETE FROM usage_logs WHERE key_id = $1
DeleteKeyLogs(logs, keyId) ==
  LET Others(l) == l.key_id # keyId
  IN SelectSeq(logs, Others)

(* ------------------------------- Init ---------------------------------- *)
\* a generation request in flight.  dInc: what its UPDATE added to used_count
\* logCalls: the calls of logUsage it has made
IdleGen == [pc |-> "idle", keyId |-> 0, genOk |-> FALSE, err |-> "none",
            dInc |-> 0, logCalls |-> 0]
\* a createAccessKey call in flight.  raced: its name check overlapped with
\* another call's for the same name; peer: how that other call ended
IdleCreator == [pc |-> "idle", name |-> "none", maxUses |-> 0, daysValid |-> 0,
                raced |-> FALSE, peer |-> "none"]
IdleDeleter == [pc |-> "idle", id |-> 0]
\* op: which handler answered; status, body: its response (status 0: the
\* handler's promise rejected, no response of its own); keyId, genOk, dInc:
\* for a generation request, the admitted key (0: not admitted), whether
\* the generation succeeded, what its UPDATE added to used_count, and the
\* calls of logUsage it made; name, raced, peer: for a create call; rows: for
\* a listing, the number of rows in the answer
NoOut == [op |-> "none", status |-> 0, body |-> "none", keyId |-> 0,
          genOk |-> FALSE, dInc |-> 0, logCalls |-> 0, name |-> "none",
          raced |-> FALSE, peer |-> "none", rows |-> 0]

Init ==
  /\ access_keys = {}
  /\ usage_logs = <<>>
  /\ nextKeyId = 1
  /\ now = 0
  /\ gen = [p \in GenProcs |-> IdleGen]
  /\ admitted = 0
  /\ creator = [c \in Creators |-> IdleCreator]
  /\ deleter = IdleDeleter
  /\ out = NoOut
  /\ ADMIN_PASSWORD = "secret"
  /\ applied = [i \in KeyIds |-> 0]
  /\ deleted = {}

\* a day passes, up to day max
Clock(max) ==
  /\ now < max
  /\ now' = now + 1
  /\ out' = NoOut
  /\ UNCHANGED <<access_keys, usage_logs, nextKeyId, gen, admitted,
                 creator, deleter, ADMIN_PASSWORD, applied, deleted>>

Tick == Clock(MaxNow)

\* Handler instances are interchangeable: a new request runs in the free
\* instance of lowest index.
FirstFree(p, procs) == \A q \in DOMAIN procs : q < p => procs[q].pc # "idle"

(* ------------------------- generate-card.ts ---------------------------- *)
\* the response of the catch block: error.message || 'Internal Server Error'
ErrorBody(msg) == IF msg = "" THEN "Internal Server Error" ELSE msg

\* the response of the generation request r
GenOut(r, status, body) ==
  [NoOut EXCEPT !.op = "gen", !.status = status, !.body = body,
     !.keyId = r.keyId, !.genOk = r.genOk, !.dInc = r.dInc,
     !.logCalls = r.logCalls]

\* the handler with a catch block that logs a rejected attempt against the
\* key whose code was presented
GenVerifyLogsRejected(p, hdr, ok) ==
  /\ gen[p].pc = "idle"
  /\ FirstFree(p, gen)
  /\ LET r == verifyAccessKey(access_keys, hdr.code, now)
         hit == {k \in access_keys : k.key_code = hdr.code}
     IN IF ~hdr.bearer
          THEN /\ out' = GenOut(IdleGen, 401,
                           "Missing or invalid Authorization header")
               /\ UNCHANGED <<gen, admitted, usage_logs>>
        ELSE IF ~ok
          THEN /\ out' = GenOut(IdleGen, 500, "StoreError")
               /\ UNCHANGED <<gen, admitted, usage_logs>>
        ELSE IF r.err # "none"
          THEN /\ out' = GenOut(IdleGen, 500, ErrorBody(r.err))
               /\ usage_logs' =
                    IF hit = {} THEN usage_logs
                    ELSE Append(usage_logs,
                           logUsage((CHOOSE k \in hit : TRUE).id, FALSE, r.err))
               /\ UNCHANGED <<gen, admitted>>
        ELSE /\ admitted < MaxRequests
             /\ admitted' = admitted + 1
             /\ gen' = [gen EXCEPT ![p] =
                          [IdleGen EXCEPT !.pc = "verified",
                                          !.keyId = r.key.id]]
             /\ out' = NoOut
             /\ UNCHANGED usage_logs
  /\ UNCHANGED <<access_keys, nextKeyId, now, ADMIN_PASSWORD,
                 creator, deleter, applied, deleted>>

\* lines 17-40: method and header checks, then verifyAccessKey.  A rejection
\* or a store failure throws with keyId still 0, so the catch block logs
\* nothing and answers 500.
GenVerify(p, hdr, ok) ==
  /\ gen[p].pc = "idle"
  /\ FirstFree(p, gen)
  /\ LET r == verifyAccessKey(access_keys, hdr.code, now)
     IN IF ~hdr.bearer
          THEN /\ out' = GenOut(IdleGen, 401,
                           "Missing or invalid Authorization header")
               /\ UNCHANGED <<gen, admitted>>
        ELSE IF ~ok
          THEN /\ out' = GenOut(IdleGen, 500, "StoreError")
               /\ UNCHANGED <<gen, admitted>>
        ELSE IF r.err # "none"
          THEN /\ out' = GenOut(IdleGen, 500, ErrorBody(r.err))
               /\ UNCHANGED <<gen, admitted>>
        ELSE /\ admitted < MaxRequests
             /\ admitted' = admitted + 1
             /\ gen' = [gen EXCEPT ![p] =
                          [IdleGen EXCEPT !.pc = "verified", !.keyId = r.key.id]]
             /\ out' = NoOut
  /\ UNCHANGED <<access_keys, usage_logs, nextKeyId, now, ADMIN_PASSWORD,
                 creator, deleter, applied, deleted>>

\* lines 42-109: the call to the model and the parsing of its answer
\* succeed, then await updateAccessKeyUsage(keyId).  An UPDATE that matches
\* no row is not an error.
GenIncrement(p, ok) ==
  /\ gen[p].pc = "verified"
  /\ IF ok
       THEN LET id == gen[p].keyId
            IN /\ access_keys' = updateAccessKeyUsage(access_keys, id)
               /\ applied' = IF FKHolds(access_keys, id)
                                THEN [applied EXCEPT ![id] = @ + 1]
                              ELSE applied
               /\ gen' = [gen EXCEPT ![p].pc = "incremented", ![p].genOk = TRUE,
                            ![p].dInc = UsedCount(access_keys', id)
                                        - UsedCount(access_keys, id)]
       ELSE /\ gen' = [gen EXCEPT ![p].pc = "catch", ![p].genOk = TRUE,
                                  ![p].err = "StoreError"]
            /\ UNCHANGED <<access_keys, applied>>
  /\ out' = NoOut
  /\ UNCHANGED <<usage_logs, nextKeyId, now, ADMIN_PASSWORD, admitted,
                 creator, deleter, deleted>>

\* lines 42-106: the call to the model or the parsing of its answer throws
\* an error with message msg
GenerateFail(p, msg) ==
  /\ gen[p].pc = "verified"
  /\ gen' = [gen EXCEPT ![p].pc = "catch", ![p].err = msg]
  /\ out' = NoOut
  /\ UNCHANGED <<access_keys, usage_logs, nextKeyId, now, ADMIN_PASSWORD,
                 admitted, creator, deleter, applied, deleted>>

\* lines 110-113: await logUsage(keyId, ip, text, true, null); 200
GenLogSuccess(p, ok) ==
  /\ gen[p].pc = "incremented"
  /\ IF ok /\ FKHolds(access_keys, gen[p].keyId)
       THEN /\ usage_logs' = Append(usage_logs,
                                     logUsage(gen[p].keyId, TRUE, ""))
            /\ out' = GenOut([gen[p] EXCEPT !.logCalls = @ + 1], 200, "card")
            /\ gen' = [gen EXCEPT ![p] = IdleGen]
       ELSE /\ gen' = [gen EXCEPT ![p].pc = "catch", ![p].logCalls = @ + 1,
                          ![p].err = IF ok THEN "FKViolation" ELSE "StoreError"]
            /\ out' = NoOut
            /\ UNCHANGED usage_logs
  /\ UNCHANGED <<access_keys, nextKeyId, now, ADMIN_PASSWORD, admitted,
                 creator, deleter, applied, deleted>>

\* lines 115-121 with keyId > 0: await logUsage(keyId, ip, text, false,
\* error.message); 500.  When this insert throws, the handler's promise
\* rejects and the handler sends no response.
GenCatch(p, ok) ==
  /\ gen[p].pc = "catch"
  /\ LET r == [gen[p] EXCEPT !.logCalls = @ + 1]
     IN IF ok /\ FKHolds(access_keys, gen[p].keyId)
          THEN /\ usage_logs' = Append(usage_logs,
                                   logUsage(gen[p].keyId, FALSE, gen[p].err))
               /\ out' = GenOut(r, 500, ErrorBody(gen[p].err))
          ELSE /\ out' = GenOut(r, 0, "none")
               /\ UNCHANGED usage_logs
  /\ gen' = [gen EXCEPT ![p] = IdleGen]
  /\ UNCHANGED <<access_keys, nextKeyId, now, ADMIN_PASSWORD, admitted,
                 creator, deleter, applied, deleted>>

(* --------------------------- admin handlers ---------------------------- *)
\* create handler: createAccessKey(name, Number(maxUses) || 100,
\*                                 Number(expiresInDays) || 30)
CreateMaxUses(raw) == IF raw = 0 THEN DefaultMaxUses ELSE raw
CreateDays(raw) == IF raw = 0 THEN DefaultDays ELSE raw

InFlightCreates == Cardinality({c \in Creators : creator[c].pc = "checked"})

\* the response of the create handler: 200 with the new row, or 500 with the
\* error's message (DuplicateName: the message that quotes `name`)
CreateOut(r, name, status, body, keyId) ==
  [NoOut EXCEPT !.op = "create", !.status = status, !.body = body,
     !.keyId = keyId, !.name = name, !.raced = r.raced, !.peer = r.peer]

\* createAccessKey, first query: the duplicate-name check
CreateCheck(c, name, rawMax, rawDays, ok) ==
  /\ creator[c].pc = "idle"
  /\ FirstFree(c, creator)
  /\ LET racing == {d \in Creators \ {c} :
                      creator[d].pc = "checked" /\ creator[d].name = name}
     IN IF ~ok
          THEN /\ out' = CreateOut(IdleCreator, name, 500, "StoreError", 0)
               /\ UNCHANGED creator
        ELSE IF NameTaken(access_keys, name)
          THEN /\ out' = CreateOut(IdleCreator, name, 500, "DuplicateName", 0)
               /\ UNCHANGED creator
        ELSE /\ nextKeyId + InFlightCreates <= MaxKeys
             /\ creator' = [d \in Creators |->
                   IF d = c
                     THEN [pc |-> "checked", name |-> name,
                           maxUses |-> CreateMaxUses(rawMax),
                           daysValid |-> CreateDays(rawDays),
                           raced |-> (racing # {}), peer |-> "none"]
                   ELSE IF d \in racing THEN [creator[d] EXCEPT !.raced = TRUE]
                   ELSE creator[d]]
             /\ out' = NoOut
  /\ UNCHANGED <<access_keys, usage_logs, nextKeyId, now, ADMIN_PASSWORD, gen,
                 admitted, deleter, applied, deleted>>

\* how the end of call c shows in the calls that raced with it
TellPeers(c, result) ==
  [d \in Creators |->
     IF d = c THEN IdleCreator
     ELSE IF creator[d].pc = "checked" /\ creator[d].raced
             /\ creator[c].raced /\ creator[d].name = creator[c].name
       THEN [creator[d] EXCEPT !.peer = result]
     ELSE creator[d]]

\* createAccessKey, second query: the INSERT ... RETURNING *
CreateInsert(c, ok) ==
  /\ creator[c].pc = "checked"
  /\ IF ok
       THEN /\ access_keys' = access_keys \cup
                 {NewKeyRow(nextKeyId, creator[c].name, creator[c].maxUses,
                            creator[c].daysValid, now)}
            /\ nextKeyId' = nextKeyId + 1
            /\ out' = CreateOut(creator[c], creator[c].name, 200, "created",
                                nextKeyId)
            /\ creator' = TellPeers(c, "created")
       ELSE /\ out' = CreateOut(creator[c], creator[c].name, 500,
                                "StoreError", 0)
            /\ creator' = TellPeers(c, "StoreError")
            /\ UNCHANGED <<access_keys, nextKeyId>>
  /\ UNCHANGED <<usage_logs, now, ADMIN_PASSWORD, gen, admitted, deleter,
                 applied, deleted>>

\* update handler: updateAccessKey(Number(id), Number(maxUses),
\*                                 expiresAt || null), one query; the handler
\* answers 200 with rows[0], which is undefined when no row matched
UpdateKey(id, maxUses, expiresAt) ==
  /\ access_keys' = updateAccessKey(access_keys, id, maxUses, expiresAt)
  /\ out' = [NoOut EXCEPT !.op = "update", !.status = 200, !.keyId = id,
               !.body = IF FKHolds(access_keys, id) THEN "row" ELSE "undefined"]
  /\ UNCHANGED <<usage_logs, nextKeyId, now, ADMIN_PASSWORD, gen, admitted,
                 creator, deleter, applied, deleted>>

\* the result of deleteAccessKey(id)
DeleteOut(id, status, body) ==
  [NoOut EXCEPT !.op = "delete", !.status = status, !.body = body,
                !.keyId = id]

\* deleteAccessKey, first query: DELETE FROM usage_logs WHERE key_id = $1
DeleteLogs(id, ok) ==
  /\ deleter.pc = "idle"
  /\ IF ok
       THEN /\ usage_logs' = DeleteKeyLogs(usage_logs, id)
            /\ deleter' = [pc |-> "logsDeleted", id |-> id]
            /\ out' = NoOut
       ELSE /\ out' = DeleteOut(id, 500, "StoreError")
            /\ UNCHANGED <<usage_logs, deleter>>
  /\ UNCHANGED <<access_keys, nextKeyId, now, ADMIN_PASSWORD, gen, admitted,
                 creator, applied, deleted>>

\* deleteAccessKey, second query: DELETE FROM access_keys WHERE id = $1.
\* The foreign key of usage_logs rejects it while a log row references id.
DeleteKey(ok) ==
  /\ deleter.pc = "logsDeleted"
  /\ LET referenced == Referenced(usage_logs, deleter.id)
     IN IF ok /\ ~referenced
          THEN /\ access_keys' = {k \in access_keys : k.id # deleter.id}
               /\ out' = DeleteOut(deleter.id, 200, "success")
               /\ deleted' = IF deleter.id < nextKeyId
                                THEN deleted \cup {deleter.id} ELSE deleted
               /\ applied' = [applied EXCEPT ![deleter.id] = 0]
          ELSE /\ out' = DeleteOut(deleter.id, 500,
                            IF ok THEN "FKViolation" ELSE "StoreError")
               /\ UNCHANGED <<access_keys, deleted, applied>>
  /\ deleter' = IdleDeleter
  /\ UNCHANGED <<usage_logs, nextKeyId, now, ADMIN_PASSWORD, gen, admitted,
                 creator>>

(* ------------------------------- Spec ---------------------------------- *)
Next ==
  \/ Tick
  \/ \E p \in GenProcs, hdr \in Headers, ok \in StoreOk : GenVerify(p, hdr, ok)
  \/ \E p \in GenProcs, ok \in StoreOk : GenIncrement(p, ok)
  \/ \E p \in GenProcs, msg \in GenErrMsgs : GenerateFail(p, msg)
  \/ \E p \in GenProcs, ok \in StoreOk : GenLogSuccess(p, ok)
  \/ \E p \in GenProcs, ok \in StoreOk : GenCatch(p, ok)
  \/ \E c \in Creators, name \in Names, rawMax \in RawMaxUses,
        rawDays \in RawDays, ok \in StoreOk :
        CreateCheck(c, name, rawMax, rawDays, ok)
  \/ \E c \in Creators, ok \in StoreOk : CreateInsert(c, ok)
  \/ \E id \in KeyIds, u \in UpdInputs : UpdateKey(id, u[1], u[2])
  \/ \E id \in KeyIds, ok \in StoreOk : DeleteLogs(id, ok)
  \/ \E ok \in StoreOk : DeleteKey(ok)

Spec == Init /\ [][Next]_vars

(* -------------------- verifyAccessKey on any table ---------------------- *)
\* Rows as the schema allows them, whoever wrote them: inactive rows, any
\* quota, any counter, any expiry.  The row with id i has key_code i.
AnyRows(i) ==
  {[id |-> i, key_code |-> generateKey(i), name |-> "a", max_uses |-> m,
    used_count |-> u, expires_at |-> e, is_active |-> a, created_at |-> 0] :
     m \in {-2, -1, 0, 1, 2}, u \in 0..2,
     e \in {NULL} \cup {<<t>> : t \in 0..MaxNow}, a \in BOOLEAN}

InitVerify ==
  /\ access_keys \in {{r} : r \in AnyRows(1)}
                     \cup {{r, q} : r \in AnyRows(1), q \in AnyRows(2)}
  /\ usage_logs = <<>>
  /\ nextKeyId = MaxKeys + 1
  /\ now \in 0..MaxNow
  /\ gen = [p \in GenProcs |-> IdleGen]
  /\ admitted = 0
  /\ creator = [c \in Creators |-> IdleCreator]
  /\ deleter = IdleDeleter
  /\ out = NoOut
  /\ ADMIN_PASSWORD = "secret"
  /\ applied = [i \in KeyIds |-> 0]
  /\ deleted = {}

NextVerify ==
  \E p \in GenProcs, hdr \in Headers, ok \in StoreOk : GenVerify(p, hdr, ok)

SpecVerify == InitVerify /\ [][NextVerify]_vars

(* ------------------ admin handlers, from the request ------------------- *)
\* a header or an environment variable that is not set
Undefined == "(undefined)"
\* the x-admin-password header of an admin request
AdminPwds == {Undefined, "secret", "guess"}
\* ADMIN_PASSWORD in the deployments considered
AdminConfigs == {Undefined, "secret"}
\* req.body.name of the create handler; req.body.id of the update handler
\* and req.query.keyId of the logs handler after Number(): 0 stands for
\* every falsy value
AdminNames == Names \cup {""}
AdminIds == 0..MaxKeys

\* an admin handler answers without calling _db.ts
AdminRefuse(op, status, body) ==
  /\ out' = [NoOut EXCEPT !.op = op, !.status = status, !.body = body]
  /\ UNCHANGED <<access_keys, usage_logs, nextKeyId, now, ADMIN_PASSWORD,
                 gen, admitted, creator, deleter, applied, deleted>>

\* create handler: the password check, the name check, then the first
\* query of createAccessKey
CreateHandler(adminPwd, c, name, rawMax, rawDays, ok) ==
  IF adminPwd # ADMIN_PASSWORD
    THEN AdminRefuse("create", 401, "Unauthorized")
  ELSE IF name = ""
    THEN AdminRefuse("create", 400, "Name is required")
  ELSE CreateCheck(c, name, rawMax, rawDays, ok)

\* update handler
UpdateHandler(adminPwd, id, maxUses, expiresAt) ==
  IF adminPwd # ADMIN_PASSWORD
    THEN AdminRefuse("update", 401, "Unauthorized")
  ELSE IF id = 0
    THEN AdminRefuse("update", 400, "ID is required")
  ELSE UpdateKey(id, maxUses, expiresAt)

\* list handler: 200 with getAllKeys()
ListKeysHandler(adminPwd, ok) ==
  IF adminPwd # ADMIN_PASSWORD
    THEN AdminRefuse("list", 401, "Unauthorized")
  ELSE IF ~ok
    THEN AdminRefuse("list", 500, "StoreError")
  ELSE /\ out' = [NoOut EXCEPT !.op = "list", !.status = 200, !.body = "keys",
                     !.rows = Cardinality(getAllKeys(access_keys))]
       /\ UNCHANGED <<access_keys, usage_logs, nextKeyId, now, ADMIN_PASSWORD,
                      gen, admitted, creator, deleter, applied, deleted>>

\* logs handler: 200 with getKeyLogs(Number(keyId))
KeyLogsHandler(adminPwd, keyId, ok) ==
  IF adminPwd # ADMIN_PASSWORD
    THEN AdminRefuse("logs", 401, "Unauthorized")
  ELSE IF keyId = 0
    THEN AdminRefuse("logs", 400, "keyId is required")
  ELSE IF ~ok
    THEN AdminRefuse("logs", 500, "StoreError")
  ELSE /\ out' = [NoOut EXCEPT !.op = "logs", !.status = 200, !.body = "logs",
                     !.keyId = keyId,
                     !.rows = Len(getKeyLogs(usage_logs, keyId))]
       /\ UNCHANGED <<access_keys, usage_logs, nextKeyId, now, ADMIN_PASSWORD,
                      gen, admitted, creator, deleter, applied, deleted>>

\* any deployment: with ADMIN_PASSWORD set, or not set
InitAdmin ==
  /\ access_keys = {}
  /\ usage_logs = <<>>
  /\ nextKeyId = 1
  /\ now = 0
  /\ gen = [p \in GenProcs |-> IdleGen]
  /\ admitted = 0
  /\ creator = [c \in Creators |-> IdleCreator]
  /\ deleter = IdleDeleter
  /\ out = NoOut
  /\ ADMIN_PASSWORD \in AdminConfigs
  /\ applied = [i \in KeyIds |-> 0]
  /\ deleted = {}

\* admin requests with any password header, one at a time, and generation
\* requests that fill the log
NextAdmin ==
  \/ \E pwd \in AdminPwds, name \in AdminNames, rawMax \in RawMaxUses,
        rawDays \in RawDays : CreateHandler(pwd, 1, name, rawMax, rawDays, TRUE)
  \/ CreateInsert(1, TRUE)
  \/ \E pwd \in AdminPwds, id \in AdminIds, u \in UpdInputs :
        UpdateHandler(pwd, id, u[1], u[2])
  \/ \E pwd \in AdminPwds : ListKeysHandler(pwd, TRUE)
  \/ \E pwd \in AdminPwds, id \in AdminIds : KeyLogsHandler(pwd, id, TRUE)
  \/ \E hdr \in Headers : GenVerify(1, hdr, TRUE)
  \/ GenIncrement(1, TRUE)
  \/ GenLogSuccess(1, TRUE)

SpecAdmin == InitAdmin /\ [][NextAdmin]_vars

(* ------------------- requests that run one at a time ------------------- *)
\* req.body.name, and req.body.maxUses and req.body.expiresInDays of the
\* create handler after Number(): 0 stands for every falsy value (absent, 0,
\* NaN)
SeqNames == {"a"}
SeqRawMaxUses == {-2, -1, 0, 1, 2}
SeqRawDays == {0, 1, 2}
\* req.body (maxUses, expiresAt) of the update handler
SeqUpdInputs == {<<2, <<>> >>, <<-1, <<0>> >>}

\* an update that does not lower the quota of the key
UpdateKeyNotLower(id, maxUses, expiresAt) ==
  /\ \A k \in access_keys :
       k.id = id =>
         \/ maxUses = Unlimited
         \/ k.max_uses # Unlimited /\ maxUses >= k.max_uses
  /\ UpdateKey(id, maxUses, expiresAt)

\* One generation request and one createAccessKey call in flight at a time
\* (handler instance 1 serves them all), over a longer stretch of time.
NextSequential ==
  \/ Clock(MaxLate)
  \/ \E hdr \in Headers : GenVerify(1, hdr, TRUE)
  \/ GenIncrement(1, TRUE)
  \/ \E msg \in GenErrMsgs : GenerateFail(1, msg)
  \/ GenLogSuccess(1, TRUE)
  \/ GenCatch(1, TRUE)
  \/ \E name \in SeqNames, rawMax \in SeqRawMaxUses, rawDays \in SeqRawDays :
        CreateCheck(1, name, rawMax, rawDays, TRUE)
  \/ CreateInsert(1, TRUE)
  \/ \E id \in KeyIds, u \in SeqUpdInputs : UpdateKeyNotLower(id, u[1], u[2])
  \/ \E id \in KeyIds : DeleteLogs(id, TRUE)
  \/ DeleteKey(TRUE)

SpecSequential == Init /\ [][NextSequential]_vars

(* ------------------------ a store that can fail ------------------------ *)
\* a query runs, or throws (connection lost, statement refused) and leaves
\* the tables as they are
QueryOutcomes == BOOLEAN

\* One generation request and one createAccessKey call at a time, every
\* query of which may throw.
NextFaults ==
  \/ \E hdr \in Headers, ok \in QueryOutcomes : GenVerify(1, hdr, ok)
  \/ \E ok \in QueryOutcomes : GenIncrement(1, ok)
  \/ \E msg \in GenErrMsgs : GenerateFail(1, msg)
  \/ \E ok \in QueryOutcomes : GenLogSuccess(1, ok)
  \/ \E ok \in QueryOutcomes : GenCatch(1, ok)
  \/ \E name \in Names, rawMax \in RawMaxUses, rawDays \in RawDays,
        ok \in QueryOutcomes : CreateCheck(1, name, rawMax, rawDays, ok)
  \/ \E ok \in QueryOutcomes : CreateInsert(1, ok)

SpecFaults == Init /\ [][NextFaults]_vars

(* -------------------- overlapping requests on one key ------------------- *)
\* quotas of the key under load
LoadQuotas == {1, 2}

\* the table after key 1, created at time 0 with quota n and one day of
\* validity, has been redeemed u times, one request after the other
KeyUsed(n, u) ==
  [NewKeyRow(1, "a", n, 1, 0) EXCEPT !.used_count = u]

\* the store after those u redemptions, no request in flight
InitOverrun ==
  /\ \E n \in LoadQuotas, u \in 0..Cardinality(GenProcs) :
       /\ u <= n
       /\ access_keys = {KeyUsed(n, u)}
       /\ usage_logs = [i \in 1..u |-> logUsage(1, TRUE, "")]
       /\ applied = [i \in KeyIds |-> IF i = 1 THEN u ELSE 0]
  /\ nextKeyId = 2
  /\ now = 0
  /\ gen = [p \in GenProcs |-> IdleGen]
  /\ admitted = 0
  /\ creator = [c \in Creators |-> IdleCreator]
  /\ deleter = IdleDeleter
  /\ out = NoOut
  /\ ADMIN_PASSWORD = "secret"
  /\ deleted = {}

\* generation requests only, as many in flight as there are handler
\* instances; no admin request
NextOverrun ==
  \/ \E p \in GenProcs, hdr \in Headers : GenVerify(p, hdr, TRUE)
  \/ \E p \in GenProcs : GenIncrement(p, TRUE)
  \/ \E p \in GenProcs, msg \in GenErrMsgs : GenerateFail(p, msg)
  \/ \E p \in GenProcs : GenLogSuccess(p, TRUE)
  \/ \E p \in GenProcs : GenCatch(p, TRUE)

SpecOverrun == InitOverrun /\ [][NextOverrun]_vars

(* ------------------------------- claims -------------------------------- *)
Bearer(c) == [bearer |-> TRUE, code |-> c]
Row(id) == CHOOSE k \in access_keys : k.id = id

\* the admissibility condition as the data model states it: expiresAt > now
AdmissibleStrict(c) ==
  \E k \in access_keys :
    /\ k.key_code = c
    /\ k.is_active = TRUE
    /\ (k.expires_at = NULL \/ k.expires_at[1] > now)
    /\ (k.max_uses = -1 \/ k.used_count < k.max_uses)

\* the same with a key still admissible at the instant expiresAt = now
Admissible(c) ==
  \E k \in access_keys :
    /\ k.key_code = c
    /\ k.is_active = TRUE
    /\ (k.expires_at = NULL \/ k.expires_at[1] >= now)
    /\ (k.max_uses = -1 \/ k.used_count < k.max_uses)

\* C1 as stated: a verify of code c admits exactly when the key with code c
\* exists, is active, has expiresAt absent or > now, and has maxUses = -1 or
\* usedCount < maxUses.
C1_AdmitsIffStrict ==
  [][\A p \in GenProcs, c \in Codes :
       GenVerify(p, Bearer(c), TRUE) =>
         ((gen'[p].pc = "verified") <=> AdmissibleStrict(c))]_vars

\* C1 amended: a verify of code c admits exactly when the key with code c
\* exists, is active, has expiresAt absent or >= now, and has maxUses = -1
\* or usedCount < maxUses; it then returns that key.
C1_AdmitsIff ==
  [][\A p \in GenProcs, c \in Codes :
       GenVerify(p, Bearer(c), TRUE) =>
         /\ (gen'[p].pc = "verified") <=> Admissible(c)
         /\ gen'[p].pc = "verified" => Row(gen'[p].keyId).key_code = c]_vars

\* a request admitted at the very instant its key expires
C1_Witness ==
  \E p \in GenProcs :
    /\ gen[p].pc = "verified"
    /\ \E k \in access_keys : k.id = gen[p].keyId /\ k.expires_at = <<now>>

\* the rows this step appended to usage_logs
NewRows ==
  IF Len(usage_logs') >= Len(usage_logs)
     /\ SubSeq(usage_logs', 1, Len(usage_logs)) = usage_logs
    THEN SubSeq(usage_logs', Len(usage_logs) + 1, Len(usage_logs'))
  ELSE <<>>

\* C2 as stated: every admitted request whose generation succeeds raises its
\* key's usedCount by exactly 1 and appends exactly one row, with
\* success = true.
C2_SuccessCounted ==
  [][out'.op = "gen" /\ out'.keyId > 0 /\ out'.genOk =>
       /\ out'.dInc = 1
       /\ NewRows = <<logUsage(out'.keyId, TRUE, "")>>]_vars

\* C2 amended: every admitted request that is answered with the generated
\* card (status 200) had a successful generation, raised its key's usedCount
\* by exactly 1 and appended exactly one row, with success = true.
C2_AnsweredSuccessCounted ==
  [][out'.op = "gen" /\ out'.status = 200 =>
       /\ out'.keyId > 0 /\ out'.genOk
       /\ out'.dInc = 1
       /\ NewRows = <<logUsage(out'.keyId, TRUE, "")>>]_vars

\* a request answered 200 while the other request, admitted for the same
\* key, is still in flight
C2_Witness ==
  /\ out.op = "gen" /\ out.status = 200
  /\ UsedCount(access_keys, out.keyId) >= 1
  /\ \E p \in GenProcs : gen[p].pc # "idle" /\ gen[p].keyId = out.keyId

\* C3 as stated: every admitted request whose generation fails leaves
\* usedCount as it is and appends exactly one row, with success = false and
\* a non-empty errorMsg.
C3_FailureLogged ==
  [][out'.op = "gen" /\ out'.keyId > 0 /\ ~out'.genOk =>
       /\ out'.dInc = 0
       /\ access_keys' = access_keys
       /\ Len(NewRows) = 1
       /\ NewRows[1].key_id = out'.keyId
       /\ NewRows[1].success = FALSE
       /\ NewRows[1].error_msg # ""]_vars

\* C4 as stated: no two rows of access_keys have the same name.
C4_NamesUnique ==
  \A k \in access_keys, q \in access_keys : k.name = q.name => k = q

\* C5 as stated: of two createKey calls with the same name whose check and
\* insert steps interleave, exactly one succeeds and the other is rejected
\* with DuplicateName.
C5_OneOfTwoCreated ==
  out.op = "create" /\ out.raced /\ out.peer # "none" =>
    {out.body, out.peer} = {"created", "DuplicateName"}

\* C6 as stated: a createKey(n) that starts while a key named n exists fails
\* with DuplicateName carrying n, inserts no row, and the listing then holds
\* exactly one row named n.
C6_LaterCreateRejected ==
  [][\A c \in Creators, n \in Names, m \in RawMaxUses, d \in RawDays :
       CreateCheck(c, n, m, d, TRUE) /\ NameTaken(access_keys, n) =>
         /\ out'.status = 500 /\ out'.body = "DuplicateName" /\ out'.name = n
         /\ access_keys' = access_keys
         /\ Cardinality({k \in getAllKeys(access_keys') : k.name = n}) = 1]_vars

\* C7: a new row has usedCount 0; the usedCount of a row never decreases; and
\* it changes only in the increment step of a generation request admitted
\* for that key, by exactly 1.
C7_UsedCountMonotone ==
  [][/\ \A q \in access_keys' :
          ~FKHolds(access_keys, q.id) => q.used_count = 0
     /\ \A k \in access_keys, q \in access_keys' :
          k.id = q.id =>
            /\ q.used_count >= k.used_count
            /\ q.used_count # k.used_count =>
                 /\ q.used_count = k.used_count + 1
                 /\ \E p \in GenProcs :
                      /\ gen[p].pc = "verified" /\ gen[p].keyId = k.id
                      /\ gen'[p].pc = "incremented"]_vars

\* a key that has been used and whose quota and expiry an admin then edited
C7_Witness ==
  \E k \in access_keys :
    k.used_count >= 1 /\ k.expires_at = NULL /\ out.op = "update"

\* C8: no increment is lost: the usedCount of every row equals the number of
\* increment statements the store has run on it, however the requests
\* interleave.
C8_NoLostUpdate ==
  \A k \in access_keys : k.used_count = applied[k.id]

\* two requests admitted for one key, both past their increment
C8_Witness ==
  \E k \in access_keys :
    /\ k.used_count = Cardinality(GenProcs)
    /\ \A p \in GenProcs : gen[p].pc = "incremented" /\ gen[p].keyId = k.id

\* C9: the increment does not look at the quota again: whatever usedCount and
\* maxUses are by then, the increment step of an admitted request raises the
\* usedCount of its key (if the row still exists) by 1.
C9_IncrementUnconditional ==
  [][\A p \in GenProcs :
       GenIncrement(p, TRUE) /\ FKHolds(access_keys, gen[p].keyId) =>
         UsedCount(access_keys', gen[p].keyId)
           = UsedCount(access_keys, gen[p].keyId) + 1]_vars

\* a key never edited (an edit leaves expires_at absent or 0, a creation
\* leaves it at 1 or later) with maxUses = 1 that two requests, both
\* admitted before either incremented, have driven to usedCount = 2
C9_Witness ==
  \E k \in access_keys :
    /\ k.max_uses = 1 /\ k.used_count = k.max_uses + 1
    /\ k.expires_at # NULL /\ k.expires_at[1] >= 1
    /\ \A p \in GenProcs : gen[p].pc = "incremented" /\ gen[p].keyId = k.id

\* C10: the step that removes a key row leaves no log row of that key; and
\* once deleteAccessKey(id) has succeeded for an issued id, the log listing
\* of id is empty and a verify of that key's code rejects with InvalidKey.
C10_DeleteCascades ==
  /\ [](\A id \in deleted :
          /\ getKeyLogs(usage_logs, id) = <<>>
          /\ verifyAccessKey(access_keys, generateKey(id), now).err
               = "InvalidKey")
  /\ [][\A k \in access_keys :
          ~FKHolds(access_keys', k.id) => getKeyLogs(usage_logs', k.id) = <<>>]_vars

\* deleteAccessKey has just succeeded for a key that had been used, while a
\* request admitted for it is still in flight
C10_Witness ==
  /\ out.op = "delete" /\ out.body = "success" /\ out.keyId \in deleted
  /\ \E p \in GenProcs : gen[p].pc = "incremented" /\ gen[p].keyId = out.keyId

\* C11: an updateKey(id, maxUses, expiresAt) leaves every log row and every
\* other key as they are, adds and removes no key, and in the key with that
\* id changes nothing but maxUses and expiresAt, which take the given values.
C11_UpdateFrame ==
  [][out'.op = "update" => \A id \in KeyIds, u \in UpdInputs :
       UpdateKey(id, u[1], u[2]) =>
         /\ usage_logs' = usage_logs
         /\ {q.id : q \in access_keys'} = {k.id : k \in access_keys}
         /\ Cardinality(access_keys') = Cardinality(access_keys)
         /\ \A k \in access_keys :
              IF k.id # id THEN k \in access_keys'
              ELSE \E q \in access_keys' :
                     /\ q.id = k.id /\ q.name = k.name
                     /\ q.key_code = k.key_code
                     /\ q.used_count = k.used_count
                     /\ q.is_active = k.is_active
                     /\ q.created_at = k.created_at
                     /\ q.max_uses = u[1] /\ q.expires_at = u[2]]_vars

\* an update has just rewritten the limits of a key that has been used and
\* logged, while another key exists with limits different from the new ones
C11_Witness ==
  /\ out.op = "update" /\ out.body = "row"
  /\ \E k \in access_keys, q \in access_keys :
       /\ k.id = out.keyId /\ k.used_count >= 1
       /\ Referenced(usage_logs, k.id)
       /\ q.id # k.id /\ q.max_uses # k.max_uses
       /\ q.expires_at # k.expires_at

\* C12 as stated: an updateKey on an id that no key has fails with NotFound
\* (it does not report success) and leaves the store as it is; on an
\* existing id it answers with the updated row.
C12_UpdateMissingNotFound ==
  [][out'.op = "update" =>
       IF FKHolds(access_keys, out'.keyId)
         THEN out'.status = 200 /\ out'.body = "row"
       ELSE /\ out'.status # 200 /\ out'.body = "NotFound"
            /\ access_keys' = access_keys
            /\ usage_logs' = usage_logs]_vars

\* C13: each of the two statements of a deleteKey(id) that runs while no key
\* has that id changes nothing, and the call then reports success; after a
\* deleteKey(id) that succeeded no key has that id any more, so a second
\* deleteKey(id) is such a call: it succeeds and leaves the store as the
\* first left it.
C13_DeleteIdempotent ==
  /\ [](\A id \in deleted : ~FKHolds(access_keys, id))
  /\ [][/\ \A id \in KeyIds :
            DeleteLogs(id, TRUE) /\ ~FKHolds(access_keys, id) =>
              /\ usage_logs' = usage_logs
              /\ access_keys' = access_keys
        /\ DeleteKey(TRUE) /\ ~FKHolds(access_keys, deleter.id) =>
              /\ out'.status = 200 /\ out'.body = "success"
              /\ usage_logs' = usage_logs
              /\ access_keys' = access_keys]_vars

\* a second deleteKey(id) has run its first statement after a first one
\* succeeded, while the other key has log rows
C13_Witness ==
  /\ deleter.pc = "logsDeleted" /\ deleter.id \in deleted
  /\ usage_logs # <<>>

\* C14: an updateKey(id, m, null) decides the verifies that follow it, from
\* the very next one on: a verify of a key whose limits are a quota m > 0 and
\* no expiry (limits that only an update writes: a creation always sets an
\* expiry) admits while usedCount < m and rejects with QuotaExhausted once
\* usedCount >= m.
C14_UpdateTakesEffect ==
  [][out'.op \in {"none", "gen"} =>
       \A p \in GenProcs, k \in access_keys :
         /\ k.max_uses > 0 /\ k.expires_at = NULL
         /\ GenVerify(p, Bearer(k.key_code), TRUE)
         => IF k.used_count < k.max_uses
              THEN gen'[p].pc = "verified" /\ gen'[p].keyId = k.id
            ELSE /\ out'.status = 500 /\ out'.body = "QuotaExhausted"
                 /\ gen' = gen]_vars

\* a verify of a key that has been redeemed once and that an
\* updateKey(id, 1, null) has limited to one use: rejected, quota exhausted
C14_Witness ==
  /\ out.op = "gen" /\ out.body = "QuotaExhausted"
  /\ \E k \in access_keys :
       /\ k.max_uses = 1 /\ k.expires_at = NULL /\ k.used_count = 1
       /\ Referenced(usage_logs, k.id)

\* whether the key k has expired by now
Expired(k) == k.expires_at # NULL /\ k.expires_at[1] < now

\* C15: while requests run one after another and no update lowers a quota,
\* the usedCount of a key with maxUses = n > 0 never exceeds n; a verify of
\* an unexpired key admits while usedCount < n and rejects with
\* QuotaExhausted once usedCount = n.
C15_SequentialQuota ==
  /\ [](\A k \in access_keys : k.max_uses > 0 => k.used_count <= k.max_uses)
  /\ [][out'.op \in {"none", "gen"} =>
         \A k \in access_keys :
           /\ k.max_uses > 0 /\ ~Expired(k)
           /\ GenVerify(1, Bearer(k.key_code), TRUE)
           => IF k.used_count < k.max_uses
                THEN gen'[1].pc = "verified" /\ gen'[1].keyId = k.id
              ELSE /\ out'.status = 500 /\ out'.body = "QuotaExhausted"
                   /\ gen' = gen]_vars

\* the third verify of a key created with maxUses = 2, after two successful
\* redemptions: rejected, quota exhausted
C15_Witness ==
  /\ out.op = "gen" /\ out.body = "QuotaExhausted"
  /\ \E k \in access_keys :
       /\ k.max_uses = 2 /\ k.used_count = 2
       /\ k.expires_at = <<k.created_at + 1>>
       /\ Len(getKeyLogs(usage_logs, k.id)) = 2

\* C16: the row a createAccessKey(name, maxUses, d) inserts has
\* expiresAt = creation time + d days; and a verify of a key at any time
\* after its expiresAt rejects with Expired, whether its quota is exhausted
\* or not.
C16_ExpiresAfterDays ==
  [][/\ out'.op = "create" /\ out'.status = 200 =>
          \E q \in access_keys' :
            /\ q.id = out'.keyId /\ ~FKHolds(access_keys, q.id)
            /\ q.created_at = now
            /\ q.expires_at = <<now + creator[1].daysValid>>
     /\ out'.op = "gen" =>
          \A k \in access_keys :
            Expired(k) /\ GenVerify(1, Bearer(k.key_code), TRUE) =>
              /\ out'.status = 500 /\ out'.body = "Expired"
              /\ gen' = gen]_vars

\* a key created with one day of validity and a quota of one, redeemed once
\* and verified again two days or more after its creation: reported
\* Expired, not QuotaExhausted
C16_Witness ==
  /\ out.op = "gen" /\ out.body = "Expired"
  /\ \E k \in access_keys :
       /\ k.expires_at = <<k.created_at + 1>> /\ now > k.created_at + 1
       /\ k.max_uses = 1 /\ k.used_count = 1

\* C17 as stated: the create operation stores the supplied maxUses when it is
\* a positive integer or -1 and the default 100 for anything else, so every
\* maxUses it stores is -1 or > 0.
C17_MaxUsesValidated ==
  [][/\ \A q \in access_keys' :
          ~FKHolds(access_keys, q.id) => q.max_uses = -1 \/ q.max_uses > 0
     /\ out'.op \in {"none", "create"} =>
          \A n \in SeqNames, m \in SeqRawMaxUses, d \in SeqRawDays :
            CreateCheck(1, n, m, d, TRUE) /\ creator'[1].pc = "checked" =>
              creator'[1].maxUses
                = IF m > 0 \/ m = -1 THEN m ELSE DefaultMaxUses]_vars

\* what an admin request that is refused as unauthorized looks like: a 401,
\* no rows in the answer, no call of createAccessKey begun, the store
\* untouched
Denied ==
  /\ out'.status = 401 /\ out'.body = "Unauthorized" /\ out'.rows = 0
  /\ access_keys' = access_keys /\ usage_logs' = usage_logs
  /\ creator' = creator /\ nextKeyId' = nextKeyId

\* C18 as stated: an admin request (create, list, update, listUsage) with no
\* x-admin-password header, or with one that differs from ADMIN_PASSWORD, is
\* answered Unauthorized and runs nothing against the store, whether
\* ADMIN_PASSWORD is set or not.
C18_NoCredentialNoOperation ==
  [][\A pwd \in AdminPwds :
       pwd = Undefined \/ pwd # ADMIN_PASSWORD =>
         /\ \A n \in AdminNames, m \in RawMaxUses, d \in RawDays :
              CreateHandler(pwd, 1, n, m, d, TRUE) => Denied
         /\ \A id \in AdminIds, u \in UpdInputs :
              UpdateHandler(pwd, id, u[1], u[2]) => Denied
         /\ ListKeysHandler(pwd, TRUE) => Denied
         /\ \A id \in AdminIds : KeyLogsHandler(pwd, id, TRUE) => Denied]_vars

\* C19 as stated: a generation request that verify admitted has called
\* logUsage exactly once by the time it ends, whether the generation
\* succeeded or failed and whether the store took its writes or not.
C19_LoggedExactlyOnce ==
  [][out'.op = "gen" /\ out'.keyId > 0 => out'.logCalls = 1]_vars

\* the number of log rows of key id with success = true
SuccessLogs(id) ==
  Cardinality({i \in DOMAIN usage_logs :
                 usage_logs[i].key_id = id /\ usage_logs[i].success})

\* C20: in every reachable state, also one in which a request has stopped
\* between its increment and its log insert, the log rows with
\* success = true of a key are at most its usedCount (and a missing key has
\* none).
C20_SuccessLogsWithinCount ==
  \A id \in KeyIds : SuccessLogs(id) <= UsedCount(access_keys, id)

\* a request stands between its increment and its log insert: its key has
\* two uses counted and one success row
C20_Witness ==
  \E k \in access_keys, p \in GenProcs :
    /\ gen[p].pc = "incremented" /\ gen[p].keyId = k.id
    /\ k.used_count = 2 /\ SuccessLogs(k.id) = 1

\* C21 as stated: an admitted request whose generation succeeded is answered
\* with the generated card, also when its increment or its log insert
\* throws.
C21_AccountingFailureHidden ==
  [][out'.op = "gen" /\ out'.keyId > 0 /\ out'.genOk =>
       out'.status = 200 /\ out'.body = "card"]_vars

\* C22 as stated: a request that verify rejects (InvalidKey, Expired,
\* QuotaExhausted) is answered with an access-denied status (401 or 403),
\* not with the 500 that answers store and generation failures.
C22_RejectionIsAccessDenied ==
  [][out'.op = "gen" =>
       \A p \in GenProcs, c \in Codes :
         /\ GenVerify(p, Bearer(c), TRUE)
         /\ verifyAccessKey(access_keys, c, now).err # "none"
         => out'.status \in {401, 403}]_vars

\* the response o answers a request that presented a code and that verify
\* rejected (no query fails in Spec, so a request that ends with no key id
\* was either refused for its header, with 401, or rejected by verify)
RejectedOut(o) == o.op = "gen" /\ o.keyId = 0 /\ o.status # 401

\* C23 as stated: the responses to rejected requests do not depend on the
\* reason of the rejection: any two rejected requests, one answered right
\* after the other, get the same status and the same body.
C23_RejectionsIndistinguishable ==
  [][RejectedOut(out) /\ RejectedOut(out') =>
       out'.status = out.status /\ out'.body = out.body]_vars

\* C24 as stated: a generation request never ends without a response of the
\* handler, and when the query of its last step threw (the verify, or the
\* log insert of the failure path) that response is the internal error 500.
C24_StoreFailureAnswered ==
  [][out'.op = "gen" =>
       /\ out'.status # 0
       /\ \A p \in GenProcs :
            \/ \E c \in Codes : GenVerify(p, Bearer(c), FALSE)
            \/ GenCatch(p, FALSE)
            => out'.status = 500]_vars

\* the quota of the key k is used up
Exhausted(k) == k.max_uses # Unlimited /\ k.used_count >= k.max_uses

\* C25: a verify rejects with QuotaExhausted only a key whose quota is used
\* up; a key whose quota is used up stays so through every step that is not
\* an updateKey on it; and no verify admits it while it is so: once rejected
\* as exhausted a key is admitted again only after an updateKey.
C25_ExhaustedStable ==
  [][/\ \A k \in access_keys :
          Exhausted(k) =>
            /\ \/ out'.op = "update" /\ out'.keyId = k.id
               \/ \A q \in access_keys' : q.id = k.id => Exhausted(q)
            /\ \A p \in GenProcs :
                 GenVerify(p, Bearer(k.key_code), TRUE) =>
                   gen'[p].pc = "idle" /\ out'.status = 500
     /\ out'.op = "gen" /\ out'.body = "QuotaExhausted" =>
          \E k \in access_keys, p \in GenProcs :
            Exhausted(k) /\ GenVerify(p, Bearer(k.key_code), TRUE)]_vars

\* a verify has just rejected a key as exhausted while a request admitted
\* earlier for the same key is still on its way to its increment
C25_Witness ==
  /\ out.op = "gen" /\ out.body = "QuotaExhausted"
  /\ \E k \in access_keys, p \in GenProcs :
       Exhausted(k) /\ gen[p].pc = "verified" /\ gen[p].keyId = k.id

\* C26: once deleteKey(id) has succeeded for an issued id, no key has that id
\* in any later state and every verify of that key's code rejects with
\* InvalidKey; the increment of a request admitted for it before the
\* deletion changes no row, and its log inserts add no row.
C26_DeletedTerminal ==
  [][\A id \in deleted :
       /\ ~FKHolds(access_keys', id)
       /\ \A p \in GenProcs :
            /\ GenVerify(p, Bearer(generateKey(id)), TRUE) =>
                 out'.status = 500 /\ out'.body = "InvalidKey" /\ gen' = gen
            /\ gen[p].keyId = id /\ gen'[p] # gen[p] =>
                 access_keys' = access_keys /\ usage_logs' = usage_logs]_vars

\* a request admitted before its key was deleted has run its increment after
\* the deletion, next to the row of another key that has been used
C26_Witness ==
  \E p \in GenProcs, k \in access_keys :
    /\ gen[p].pc = "incremented" /\ gen[p].keyId \in deleted
    /\ gen[p].dInc = 0
    /\ k.used_count >= 1

\* C27: in every reachable state the keyId of every log row is the id of a
\* key that exists.
C27_LogsHaveTheirKey ==
  \A i \in DOMAIN usage_logs : FKHolds(access_keys, usage_logs[i].key_id)

\* a deleteKey whose second statement met a log row that an in-flight
\* request had inserted after the first: the delete is refused, the row and
\* its key stay
C27_Witness ==
  /\ out.op = "delete" /\ out.body = "FKViolation"
  /\ Referenced(usage_logs, out.keyId)
  /\ FKHolds(access_keys, out.keyId)

\* C28: a generation request that ends without having been admitted (no
\* Bearer header, or a code that verify rejects) leaves both tables as they
\* were: no usedCount changes, no log row is appended.
C28_RejectedLeavesStore ==
  [][out'.op = "gen" =>
       \A p \in GenProcs, hdr \in Headers :
         GenVerify(p, hdr, TRUE) /\ gen'[p].pc # "verified" =>
           /\ out'.keyId = 0 /\ out'.logCalls = 0
           /\ access_keys' = access_keys
           /\ usage_logs' = usage_logs]_vars

\* a request has just been rejected for a key that exists, has been used
\* and logged, and has expired
C28_Witness ==
  /\ out.op = "gen" /\ out.keyId = 0 /\ out.body = "Expired"
  /\ \E k \in access_keys :
       Expired(k) /\ k.used_count >= 1 /\ Referenced(usage_logs, k.id)

\* C29: with at most N requests in flight at a time (N handler instances)
\* and no updateKey, the usedCount of a key with maxUses = n >= 1 never
\* exceeds n + N - 1.
C29_OverrunBounded ==
  \A k \in access_keys :
    k.max_uses >= 1 => k.used_count <= k.max_uses + Cardinality(GenProcs) - 1

\* the bound is met: a key with a quota of 2 and one use, then two requests
\* admitted together, both counted
C29_Witness ==
  \E k \in access_keys :
    /\ k.max_uses = 2
    /\ k.used_count = k.max_uses + Cardinality(GenProcs) - 1
    /\ \A p \in GenProcs : gen[p].pc = "incremented" /\ gen[p].keyId = k.id

\* C30: deleteKey is all-or-nothing towards concurrent generation requests:
\* it answers success and leaves neither the AccessKey row nor any UsageLog
\* row of the id, also when a request admitted for that key is in flight.
\* (Without store faults, a log row written by such a request between the
\* two DELETEs is the only thing that can make deleteAccessKey fail.)
C30_DeleteAllOrNothing ==
  [][out'.op = "delete" =>
       /\ out'.status = 200
       /\ ~FKHolds(access_keys', out'.keyId)
       /\ ~Referenced(usage_logs', out'.keyId)]_vars

====
